---- MODULE Spec2Model ----
(***************************************************************************)
(* The C-compatible wallet functions of bindings/wallet-core/src/c.rs,     *)
(* as a state machine over the pointers a caller holds: one wallet, one    *)
(* settings, one conversion, one vote plan, one proposal, one error, and   *)
(* the cell that receives transaction pointers.  A pointer is null, or     *)
(* points to a live object, or dangles once the object has been deleted.   *)
(* The engine behind the functions                                         *)
(* (crate::Wallet, crate::Conversion, crate::Proposal, crate::VotePlan)    *)
(* and the chain library are not part of c.rs; their operators below are   *)
(* written from the specification.                                          *)
(***************************************************************************)
EXTENDS Integers, Sequences, FiniteSets, TLC

VARIABLES
    wallet,      \* the Wallet behind the caller's WalletPtr (null: none yet)
    settings,    \* the Settings behind the caller's SettingsPtr
    conversion,  \* the Conversion behind the caller's ConversionPtr
    vote_plan,   \* the VotePlan behind the caller's VotePlanPtr
    proposal,    \* the Proposal behind the caller's ProposalPtr
    tx_out,      \* the caller's (transaction_out, size) cell and what it points to
    ret,         \* the last call: its inputs, its Result, the out-parameters written
    error,       \* the Error behind the ErrorPtr of the last Result
    aborted,     \* the process has panicked or crashed inside a call
    heap,        \* "sound", or "corrupt" once undefined behaviour has damaged it
    signed,      \* history: the counter of the last transaction built by vote_cast
    last_set,    \* history: the counter of the last wallet_set_state (0 after recover)
    converted    \* history: the funds and the fee the conversion was built from

vars == <<wallet, settings, conversion, vote_plan, proposal, tx_out, ret, error,
          aborted, heap, signed, last_set, converted>>

(***************************************************************************)
(* Bounds of the model.                                                    *)
(***************************************************************************)
MaxBlock == 1           \* block0 inputs 0..MaxBlock; 0 cannot be decoded
MaxIndex == 2           \* index argument of transactions_get in 0..MaxIndex
MaxProposalIndex == 0   \* index argument of vote_proposal in 0..MaxProposalIndex

U8Max == 255


Min(a, b) == IF a < b THEN a ELSE b

(***************************************************************************)
(* Result and Error (crate::Result, crate::Error): a kind, the argument    *)
(* an invalid_input names, and the attached cause.                         *)
(***************************************************************************)
Success == [kind |-> "success", arg |-> "", cause |-> ""]
InvalidInput(arg, cause) == [kind |-> "invalid_input", arg |-> arg, cause |-> cause]
WalletConversionError(cause) == [kind |-> "wallet_conversion", arg |-> "", cause |-> cause]
WalletVoteError(cause) == [kind |-> "wallet_vote", arg |-> "", cause |-> cause]
Panic == [kind |-> "panic", arg |-> "", cause |-> "todo"]
\* the process killed by a signal inside a call on freed memory
Segfault == [kind |-> "crash", arg |-> "", cause |-> "signal"]

IsError(r) == r.kind \notin {"success", "panic", "crash"}

(***************************************************************************)
(* The objects.  A null pointer is the object with null = TRUE; freed is   *)
(* TRUE once the object has been deleted: the pointer then dangles and the *)
(* other fields are what its memory held last.  It is TRUE as well once    *)
(* the heap is corrupted and the object may be gone.                       *)
(***************************************************************************)
ZeroKeys == [m |-> 0, pw |-> 0]
NullWallet == [null |-> TRUE, freed |-> FALSE, keys |-> ZeroKeys, utxos |-> {},
               value |-> 0, counter |-> 0]
NullSettings == [null |-> TRUE, freed |-> FALSE, coefficient |-> 0, constant |-> 0,
                 block |-> 0]
NullConversion == [null |-> TRUE, freed |-> FALSE, transactions |-> <<>>,
                   ignored |-> {}]
NullVotePlan == [null |-> TRUE, freed |-> FALSE, id |-> 0, payload_type |-> "none"]
NullProposal == [null |-> TRUE, freed |-> FALSE, index |-> 0,
                 options |-> [start |-> 0, end |-> 0]]
NoTx == [src |-> "none", index |-> 0, bytes |-> <<>>, len |-> 0, live |-> FALSE,
         cur |-> FALSE, mem |-> <<>>]

(***************************************************************************)
(* The ledger the block0 inputs describe.  Block b >= 1 carries a linear   *)
(* fee (constant + coefficient per input) and OutputsPerBlock outputs;     *)
(* block 0 stands for bytes that do not decode.  All outputs of a block    *)
(* but the last belong to the keys of mnemonic 1, with values from one     *)
(* below the block's per-input fee upwards; the last belongs to other      *)
(* keys.                                                                   *)
(***************************************************************************)
OutputsPerBlock == 6
FeeConstant == 1
MaxInputs == 2           \* inputs one conversion transaction may carry

BlockOf(e) == ((e - 1) \div OutputsPerBlock) + 1
SlotOf(e) == ((e - 1) % OutputsPerBlock) + 1
BlockCoefficient(b) == b + 1
BlockOutputs(b) == (OutputsPerBlock * (b - 1) + 1)..(OutputsPerBlock * b)
EntryOwner(e) == IF SlotOf(e) = OutputsPerBlock THEN 2 ELSE 1
EntryValue(e) == IF SlotOf(e) = OutputsPerBlock THEN 7
                 ELSE BlockCoefficient(BlockOf(e)) + SlotOf(e) - 2

RECURSIVE SetToSeq(_)
SetToSeq(S) == IF S = {} THEN <<>>
               ELSE LET e == CHOOSE x \in S : \A y \in S : x <= y
                    IN <<e>> \o SetToSeq(S \ {e})

RECURSIVE SumValues(_)
SumValues(S) == IF S = {} THEN 0
                ELSE LET e == CHOOSE x \in S : TRUE
                     IN EntryValue(e) + SumValues(S \ {e})

Range(s) == {s[i] : i \in 1..Len(s)}

(***************************************************************************)
(* The engine, from the specification.                                     *)
(***************************************************************************)
\* KeyRecovery: recover(mnemonic, passphrase) -> KeySet | InvalidMnemonic
Wallet_recover(mnemonics, password) ==
    IF mnemonics = 0
    THEN [ok |-> FALSE, error |-> InvalidInput("mnemonics", "InvalidMnemonic"),
          wallet |-> NullWallet]
    ELSE [ok |-> TRUE, error |-> Success,
          wallet |-> [null |-> FALSE, freed |-> FALSE,
                      keys |-> [m |-> mnemonics, pw |-> password],
                      utxos |-> {}, value |-> 0, counter |-> 0]]

\* Settings: parse_settings(block0_bytes)
Settings_new(b) ==
    [null |-> FALSE, freed |-> FALSE, coefficient |-> BlockCoefficient(b),
     constant |-> FeeConstant, block |-> b]

\* FundsScanner: the outputs of the block that the wallet's keys own
Matching(keys, b) ==
    {e \in BlockOutputs(b) : keys.pw = 0 /\ EntryOwner(e) = keys.m}

\* scan_funds(block0_bytes, keys) -> (discovered funds, Settings) | BlockDecodeError
Wallet_retrieve_funds(w, b) ==
    IF b = 0
    THEN [ok |-> FALSE,
          error |-> [kind |-> "block_decode", arg |-> "block0", cause |-> "decode"],
          wallet |-> w, settings |-> NullSettings]
    ELSE [ok |-> TRUE, error |-> Success,
          wallet |-> [w EXCEPT !.utxos = @ \cup Matching(w.keys, b)],
          settings |-> Settings_new(b)]

\* AccountState: set_state(value, counter) is an unconditional overwrite
Wallet_set_state(w, value, counter) ==
    [w EXCEPT !.value = value, !.counter = counter]

\* total_value(): the funds retrieve_funds has discovered (the doc comments of
\* wallet_retrieve_funds and wallet_total_value: without a retrieve_funds the
\* total is that of a wallet with no funds) together with the current value
\* of the account
Wallet_total_value(w) == SumValues(w.utxos) + w.value

\* the identifier of the account, a function of the keys alone
Wallet_id(w) == <<w.keys.m, w.keys.pw>>

\* ConversionEngine: dust is an entry whose value is at most the marginal fee
\* of one more input
IsDust(e, s) == EntryValue(e) <= s.coefficient

\* the bytes of one conversion transaction: tag, inputs, output value
ConversionTx(batch, s) ==
    <<1, Len(batch)>> \o batch
        \o <<SumValues(Range(batch)) - (s.constant + s.coefficient * Len(batch))>>

RECURSIVE Batches(_, _)
Batches(inputs, s) ==
    IF inputs = <<>> THEN <<>>
    ELSE LET n == Min(MaxInputs, Len(inputs))
         IN <<ConversionTx(SubSeq(inputs, 1, n), s)>>
                \o Batches(SubSeq(inputs, n + 1, Len(inputs)), s)

\* convert(funds, settings) -> Conversion; no error path
Wallet_convert(w, s) ==
    [null |-> FALSE, freed |-> FALSE,
     transactions |-> Batches(SetToSeq({e \in w.utxos : ~IsDust(e, s)}), s),
     ignored |-> {e \in w.utxos : IsDust(e, s)}]

\* the inputs a conversion transaction spends, read back from its bytes
TxInputs(t) == {t[i] : i \in 3..(2 + t[2])}

\* the protocol's bound on the number of options of a proposal
NumChoicesMax == 15

\* vote::Options::new_length: a closed range [0, num_choices) of valid choices,
\* refused when num_choices is zero or above the protocol maximum
VoteOptions_new_length(num_choices) ==
    IF num_choices = 0 \/ num_choices > NumChoicesMax
    THEN [ok |-> FALSE, options |-> [start |-> 0, end |-> 0]]
    ELSE [ok |-> TRUE, options |-> [start |-> 0, end |-> num_choices]]

\* whether a choice lies within the options of a proposal
Options_validate(options, choice) ==
    options.start <= choice /\ choice < options.end

\* payload_type: enumerated {public, private}
PayloadType_try_from(payload_type) ==
    CASE payload_type = 1 -> [ok |-> TRUE, payload_type |-> "public"]
      [] payload_type = 2 -> [ok |-> TRUE, payload_type |-> "private"]
      [] OTHER -> [ok |-> FALSE, payload_type |-> "none"]

PayloadCode(payload_type) == IF payload_type = "public" THEN 1 ELSE 2

VotePlan_new(id, payload_type) ==
    [null |-> FALSE, freed |-> FALSE, id |-> id, payload_type |-> payload_type]

Proposal_new(index, options) ==
    [null |-> FALSE, freed |-> FALSE, index |-> index, options |-> options]

\* the bytes of a vote cast: tag, vote plan id, payload type, proposal index,
\* choice, and the account (keys and counter) that signs it
VoteTx(w, vp, p, choice) ==
    <<2, vp.id, PayloadCode(vp.payload_type), p.index, choice, w.counter, w.keys.m>>

\* the counter a vote cast was signed with, read back from its bytes
TxCounter(t) == t[6]

\* cast_vote(wallet, settings, vote_plan, proposal, choice): fails with
\* ChoiceOutOfRange, otherwise the signed transaction; AccountState is not
\* mutated
Wallet_vote(w, s, vp, p, choice) ==
    IF ~Options_validate(p.options, choice)
    THEN [ok |-> FALSE, error |-> WalletVoteError("ChoiceOutOfRange"),
          wallet |-> w, transaction |-> <<>>]
    ELSE [ok |-> TRUE, error |-> Success,
          wallet |-> w, transaction |-> VoteTx(w, vp, p, choice)]

(***************************************************************************)
(* The functions of c.rs.  A pointer argument to an object is the object   *)
(* (the Null object for a null pointer); an out-pointer is a Boolean, TRUE *)
(* when it is null.  Each yields the Result, the out-parameters written    *)
(* and the objects as the call leaves them.                                *)
(***************************************************************************)
wallet_recover(mnemonics, password_null, password_length, wallet_out_null) ==
    IF wallet_out_null
    THEN [result |-> InvalidInput("wallet_out", "NulPtr"), written |-> {},
          wallet |-> NullWallet]
    ELSE IF ~password_null /\ password_length > 0
    THEN [result |-> Panic, written |-> {}, wallet |-> NullWallet]
    ELSE LET r == Wallet_recover(mnemonics, 0)
         IN IF r.ok
            THEN [result |-> Success, written |-> {"wallet_out"}, wallet |-> r.wallet]
            ELSE [result |-> r.error, written |-> {}, wallet |-> NullWallet]

wallet_retrieve_funds(w, block0_null, block0, settings_out_null) ==
    IF w.null
    THEN [result |-> InvalidInput("wallet", "NulPtr"), written |-> {},
          wallet |-> w, settings |-> NullSettings]
    ELSE IF block0_null
    THEN [result |-> InvalidInput("block0", "NulPtr"), written |-> {},
          wallet |-> w, settings |-> NullSettings]
    ELSE IF settings_out_null
    THEN [result |-> InvalidInput("settings_out", "NulPtr"), written |-> {},
          wallet |-> w, settings |-> NullSettings]
    ELSE LET r == Wallet_retrieve_funds(w, block0)
         IN IF r.ok
            THEN [result |-> Success, written |-> {"settings_out"},
                  wallet |-> r.wallet, settings |-> r.settings]
            ELSE [result |-> r.error, written |-> {},
                  wallet |-> r.wallet, settings |-> NullSettings]

wallet_convert(w, s, conversion_out_null) ==
    IF w.null
    THEN [result |-> InvalidInput("wallet", "NulPtr"), written |-> {},
          conversion |-> NullConversion]
    ELSE IF s.null
    THEN [result |-> InvalidInput("settings", "NulPtr"), written |-> {},
          conversion |-> NullConversion]
    ELSE IF conversion_out_null
    THEN [result |-> InvalidInput("conversion_out", "NulPtr"), written |-> {},
          conversion |-> NullConversion]
    ELSE [result |-> Success, written |-> {"conversion_out"},
          conversion |-> Wallet_convert(w, s)]

\* a variant that writes the size before it looks the index up
wallet_convert_transactions_get_eager(c, index, out_null, size_null) ==
    IF c.null
    THEN [result |-> InvalidInput("conversion", "NulPtr"), written |-> {},
          bytes |-> <<>>, len |-> 0]
    ELSE IF out_null
    THEN [result |-> InvalidInput("transaction_out", "NulPtr"), written |-> {},
          bytes |-> <<>>, len |-> 0]
    ELSE IF size_null
    THEN [result |-> InvalidInput("transaction_size", "NulPtr"), written |-> {},
          bytes |-> <<>>, len |-> 0]
    ELSE IF index < Len(c.transactions)
    THEN [result |-> Success, written |-> {"transaction_out", "transaction_size"},
          bytes |-> c.transactions[index + 1], len |-> Len(c.transactions[index + 1])]
    ELSE [result |-> WalletConversionError("OutOfBound"),
          written |-> {"transaction_size"}, bytes |-> <<>>, len |-> 0]

\* a variant that counts the transactions from 1
wallet_convert_transactions_get_one_based(c, index, out_null, size_null) ==
    IF c.null
    THEN [result |-> InvalidInput("conversion", "NulPtr"), written |-> {},
          bytes |-> <<>>, len |-> 0]
    ELSE IF out_null
    THEN [result |-> InvalidInput("transaction_out", "NulPtr"), written |-> {},
          bytes |-> <<>>, len |-> 0]
    ELSE IF size_null
    THEN [result |-> InvalidInput("transaction_size", "NulPtr"), written |-> {},
          bytes |-> <<>>, len |-> 0]
    ELSE IF 1 <= index /\ index <= Len(c.transactions)
    THEN [result |-> Success, written |-> {"transaction_out", "transaction_size"},
          bytes |-> c.transactions[index], len |-> Len(c.transactions[index])]
    ELSE [result |-> WalletConversionError("OutOfBound"), written |-> {},
          bytes |-> <<>>, len |-> 0]

wallet_convert_transactions_size(c) ==
    IF c.null THEN 0 ELSE Len(c.transactions)

\* index is 0-based; transactions.get(index) is Some exactly below the length
wallet_convert_transactions_get(c, index, transaction_out_null, transaction_size_null) ==
    IF c.null
    THEN [result |-> InvalidInput("conversion", "NulPtr"), written |-> {},
          bytes |-> <<>>, len |-> 0]
    ELSE IF transaction_out_null
    THEN [result |-> InvalidInput("transaction_out", "NulPtr"), written |-> {},
          bytes |-> <<>>, len |-> 0]
    ELSE IF transaction_size_null
    THEN [result |-> InvalidInput("transaction_size", "NulPtr"), written |-> {},
          bytes |-> <<>>, len |-> 0]
    ELSE IF index < Len(c.transactions)
    THEN [result |-> Success, written |-> {"transaction_out", "transaction_size"},
          bytes |-> c.transactions[index + 1], len |-> Len(c.transactions[index + 1])]
    ELSE [result |-> WalletConversionError("OutOfBound"), written |-> {},
          bytes |-> <<>>, len |-> 0]

\* a variant that writes the count to value_out and the sum to ignored_out
wallet_convert_ignored_swapped(c, value_out_null, ignored_out_null) ==
    IF c.null
    THEN [result |-> InvalidInput("conversion", "NulPtr"), written |-> {},
          value |-> 0, ignored |-> 0]
    ELSE [result |-> Success,
          written |-> (IF value_out_null THEN {} ELSE {"value_out"})
                        \cup (IF ignored_out_null THEN {} ELSE {"ignored_out"}),
          value |-> Cardinality(c.ignored), ignored |-> SumValues(c.ignored)]

wallet_convert_ignored(c, value_out_null, ignored_out_null) ==
    IF c.null
    THEN [result |-> InvalidInput("conversion", "NulPtr"), written |-> {},
          value |-> 0, ignored |-> 0]
    ELSE [result |-> Success,
          written |-> (IF value_out_null THEN {} ELSE {"value_out"})
                        \cup (IF ignored_out_null THEN {} ELSE {"ignored_out"}),
          value |-> SumValues(c.ignored), ignored |-> Cardinality(c.ignored)]

wallet_total_value(w, total_out_null) ==
    IF w.null
    THEN [result |-> InvalidInput("wallet", "NulPtr"), written |-> {}, total |-> 0]
    ELSE IF total_out_null
    THEN [result |-> Success, written |-> {}, total |-> 0]
    ELSE [result |-> Success, written |-> {"total_out"},
          total |-> Wallet_total_value(w)]

\* a variant that keeps the state it has when the counter does not advance
wallet_set_state_monotonic(w, value, counter) ==
    IF w.null
    THEN [result |-> InvalidInput("wallet", "NulPtr"), wallet |-> w]
    ELSE IF counter <= w.counter
    THEN [result |-> Success, wallet |-> w]
    ELSE [result |-> Success, wallet |-> Wallet_set_state(w, value, counter)]

wallet_set_state(w, value, counter) ==
    IF w.null
    THEN [result |-> InvalidInput("wallet", "NulPtr"), wallet |-> w]
    ELSE [result |-> Success, wallet |-> Wallet_set_state(w, value, counter)]

wallet_vote_plan(id_null, id, payload_type, vote_plan_out_null) ==
    IF id_null
    THEN [result |-> InvalidInput("id", "NulPtr"), written |-> {},
          vote_plan |-> NullVotePlan]
    ELSE IF vote_plan_out_null
    THEN [result |-> InvalidInput("vote_plan_out", "NulPtr"), written |-> {},
          vote_plan |-> NullVotePlan]
    ELSE LET pt == PayloadType_try_from(payload_type)
         IN IF ~pt.ok
            THEN [result |-> InvalidInput("payload_type", "TryFrom"), written |-> {},
                  vote_plan |-> NullVotePlan]
            ELSE [result |-> Success, written |-> {"vote_plan_out"},
                  vote_plan |-> VotePlan_new(id, pt.payload_type)]

\* a variant that passes its two u8 arguments the other way round
wallet_vote_proposal_swapped(index, num_choices, proposal_out_null) ==
    IF proposal_out_null
    THEN [result |-> InvalidInput("proposal_out", "NulPtr"), written |-> {},
          proposal |-> NullProposal]
    ELSE LET o == VoteOptions_new_length(index)
         IN IF ~o.ok
            THEN [result |-> InvalidInput("num_choices", "Options"), written |-> {},
                  proposal |-> NullProposal]
            ELSE [result |-> Success, written |-> {"proposal_out"},
                  proposal |-> Proposal_new(num_choices, o.options)]

wallet_vote_proposal(index, num_choices, proposal_out_null) ==
    IF proposal_out_null
    THEN [result |-> InvalidInput("proposal_out", "NulPtr"), written |-> {},
          proposal |-> NullProposal]
    ELSE LET o == VoteOptions_new_length(num_choices)
         IN IF ~o.ok
            THEN [result |-> InvalidInput("num_choices", "Options"), written |-> {},
                  proposal |-> NullProposal]
            ELSE [result |-> Success, written |-> {"proposal_out"},
                  proposal |-> Proposal_new(index, o.options)]

\* a variant that advances the account counter once the vote is built
wallet_vote_cast_advancing(w, s, vp, p, choice, transaction_out_null, len_out_null) ==
    LET failed(arg) == [result |-> InvalidInput(arg, "NulPtr"), written |-> {},
                        wallet |-> w, bytes |-> <<>>, len |-> 0, live |-> FALSE]
    IN  IF w.null THEN failed("wallet")
        ELSE IF s.null THEN failed("settings")
        ELSE IF vp.null THEN failed("vote_plan")
        ELSE IF p.null THEN failed("proposal")
        ELSE IF transaction_out_null THEN failed("transaction_out")
        ELSE IF len_out_null THEN failed("len_out")
        ELSE LET r == Wallet_vote(w, s, vp, p, choice)
             IN IF ~r.ok
                THEN [result |-> r.error, written |-> {}, wallet |-> r.wallet,
                      bytes |-> <<>>, len |-> 0, live |-> FALSE]
                ELSE [result |-> Success, written |-> {"transaction_out", "len_out"},
                      wallet |-> Wallet_set_state(r.wallet, r.wallet.value,
                                                  r.wallet.counter + 1),
                      bytes |-> r.transaction,
                      len |-> Len(r.transaction), live |-> FALSE]

\* On success the out-parameters receive the address and the length of the
\* local `transaction`, which is dropped when the function returns: live is
\* whether that buffer is still allocated once the caller has the pointer.
wallet_vote_cast(w, s, vp, p, choice, transaction_out_null, len_out_null) ==
    LET failed(arg) == [result |-> InvalidInput(arg, "NulPtr"), written |-> {},
                        wallet |-> w, bytes |-> <<>>, len |-> 0, live |-> FALSE]
    IN  IF w.null THEN failed("wallet")
        ELSE IF s.null THEN failed("settings")
        ELSE IF vp.null THEN failed("vote_plan")
        ELSE IF p.null THEN failed("proposal")
        ELSE IF transaction_out_null THEN failed("transaction_out")
        ELSE IF len_out_null THEN failed("len_out")
        ELSE LET r == Wallet_vote(w, s, vp, p, choice)
             IN IF ~r.ok
                THEN [result |-> r.error, written |-> {}, wallet |-> r.wallet,
                      bytes |-> <<>>, len |-> 0, live |-> FALSE]
                ELSE [result |-> Success, written |-> {"transaction_out", "len_out"},
                      wallet |-> r.wallet, bytes |-> r.transaction,
                      len |-> Len(r.transaction), live |-> FALSE]

wallet_id(w, id_out_null) ==
    IF w.null
    THEN [result |-> InvalidInput("wallet", "NulPtr"), written |-> {}, id |-> <<>>]
    ELSE IF id_out_null
    THEN [result |-> InvalidInput("id_out", "NulPtr"), written |-> {}, id |-> <<>>]
    ELSE [result |-> Success, written |-> {"id_out"}, id |-> Wallet_id(w)]

\* Box::from_raw + drop: a non-null pointer has its object freed.  The
\* pointer is passed by value, so the caller's copy keeps the address.
wallet_delete_error(e) == IF e = "none" THEN e ELSE "freed"

wallet_delete_settings(s) == IF s.null THEN s ELSE [s EXCEPT !.freed = TRUE]

wallet_delete_wallet(w) == IF w.null THEN w ELSE [w EXCEPT !.freed = TRUE]

\* the transactions a conversion owns are freed with it
wallet_delete_conversion(c) == IF c.null THEN c ELSE [c EXCEPT !.freed = TRUE]

wallet_delete_vote_plan(vp) == IF vp.null THEN vp ELSE [vp EXCEPT !.freed = TRUE]

wallet_delete_proposal(p) == IF p.null THEN p ELSE [p EXCEPT !.freed = TRUE]

(***************************************************************************)
(* The objects a call reads or writes through its pointer arguments: none  *)
(* when it returns at a null check that comes before the first access.     *)
(***************************************************************************)
\* wallet.id() follows both null checks
wallet_id_reads(w, id_out_null) ==
    IF w.null \/ id_out_null THEN {} ELSE {"wallet"}

\* wallet.retrieve_funds follows the three null checks
wallet_retrieve_funds_reads(w, block0_null, settings_out_null) ==
    IF w.null \/ block0_null \/ settings_out_null THEN {} ELSE {"wallet"}

\* settings.clone() precedes the null check of conversion_out
wallet_convert_reads(w, s, conversion_out_null) ==
    IF w.null \/ s.null THEN {}
    ELSE IF conversion_out_null THEN {"settings"}
    ELSE {"settings", "wallet"}

wallet_convert_transactions_size_reads(c) ==
    IF c.null THEN {} ELSE {"conversion"}

\* conversion.transactions.get follows the three null checks
wallet_convert_transactions_get_reads(c, transaction_out_null, transaction_size_null) ==
    IF c.null \/ transaction_out_null \/ transaction_size_null THEN {}
    ELSE {"conversion"}

\* c.ignored is summed before the out-pointers are looked at
wallet_convert_ignored_reads(c) ==
    IF c.null THEN {} ELSE {"conversion"}

\* wallet.total_value() is called only with a non-null total_out
wallet_total_value_reads(w, total_out_null) ==
    IF w.null \/ total_out_null THEN {} ELSE {"wallet"}

wallet_set_state_reads(w) ==
    IF w.null THEN {} ELSE {"wallet"}

\* settings.clone() precedes the null checks of vote_plan, proposal and the
\* out-pointers; wallet.vote follows them all
wallet_vote_cast_reads(w, s, vp, p, transaction_out_null, len_out_null) ==
    IF w.null \/ s.null THEN {}
    ELSE IF vp.null \/ p.null \/ transaction_out_null \/ len_out_null
    THEN {"settings"}
    ELSE {"settings", "wallet", "vote_plan", "proposal"}

\* Box::from_raw(ptr) on a non-null pointer drops what it points to
wallet_delete_reads(o, name) ==
    IF o.null THEN {} ELSE {name}

\* what a read through a pointer finds: the buffer while it is allocated, and
\* either the old bytes or anything else once it has been freed
Garbage == <<0>>
Deref(bytes, live) == IF live THEN {bytes} ELSE {bytes, Garbage}

(***************************************************************************)
(* The inputs the calls are tried with: a record of sets, one per          *)
(* argument.  Every call is tried with no null pointer and with each one   *)
(* of its pointers null; a pointer that is not null is the one the caller  *)
(* holds, live or dangling.                                                *)
(***************************************************************************)
NoNull == "none"

\* the whole program: each argument over a valid and an invalid value (a
\* password is invalid when its pointer is not null)
Inputs ==
    [mnemonics |-> {0, 1}, password_lengths |-> {1}, blocks |-> {0, 1},
     states |-> {<<1000, 5>>}, payloads |-> {0, 1}, ids |-> {1},
     indexes |-> {0}, num_choices |-> {0, 1}, choices |-> {0, 1},
     gets |-> {1}]

\* the account and the votes: valid keys, block and payload type, two account
\* states of which the second lowers the value and raises the counter, a
\* refused and an accepted number of choices, the last valid choice and the
\* first invalid one
VoteInputs ==
    [mnemonics |-> {1}, password_lengths |-> {0},
     blocks |-> {1}, states |-> {<<1000, 5>>, <<0, 6>>}, payloads |-> {1},
     ids |-> {1}, indexes |-> 0..MaxProposalIndex,
     num_choices |-> {0, 2},
     choices |-> {1, 2}, gets |-> {}]

\* the account: a mnemonic that recovers and one that does not, every block,
\* and two account states of which the second lowers the value and raises the
\* counter
AccountInputs ==
    [mnemonics |-> {0, 1}, password_lengths |-> {0}, blocks |-> 0..MaxBlock,
     states |-> {<<1000, 5>>, <<0, 6>>}, payloads |-> {}, ids |-> {},
     indexes |-> {}, num_choices |-> {}, choices |-> {}, gets |-> {}]

\* the funds and their conversion
ConversionInputs ==
    [mnemonics |-> {0, 1}, password_lengths |-> {0}, blocks |-> 0..MaxBlock,
     states |-> {}, payloads |-> {}, ids |-> {}, indexes |-> {}, num_choices |-> {},
     choices |-> {}, gets |-> 0..MaxIndex]

\* every proposal a caller can ask for
ProposalInputs ==
    [mnemonics |-> {}, password_lengths |-> {}, blocks |-> {}, states |-> {},
     payloads |-> {}, ids |-> {}, indexes |-> {3},
     num_choices |-> 0..U8Max, choices |-> {}, gets |-> {}]

NoFunds == [funds |-> {}, coefficient |-> 0, ub |-> FALSE]

Arg(null, object, Null) == IF null THEN Null ELSE object

\* the objects behind the caller's pointers, by the name of the argument
Held ==
    [wallet |-> wallet, settings |-> settings, conversion |-> conversion,
     vote_plan |-> vote_plan, proposal |-> proposal]

\* a call that goes through a dangling pointer has undefined behaviour
UseAfterFree(reads) == \E name \in reads : Held[name].freed

\* A call has undefined behaviour when it goes through a dangling pointer, and
\* also when it allocates (an object, or the Error of the Result it returns)
\* on a heap that an earlier call with undefined behaviour has corrupted.
Undefined(reads, allocates) ==
    UseAfterFree(reads) \/ (heap = "corrupt" /\ allocates)

\* the freed objects a call reads through dangling pointers
Dangling(reads) == {name \in reads : Held[name].freed}

\* What a call does.  A call that has no undefined behaviour has the one
\* outcome of its code.  A call with undefined behaviour is killed by a
\* signal, or it runs to its end on what it finds behind each dangling
\* pointer.  That can be anything: three contents are followed for each
\* object ("stale", what its memory held last, "scribbled" and "cleared"),
\* chosen so that the call takes each of the branches of its code, and the
\* values such a call hands out are Wild.
Outcomes(reads, undefined) ==
    {[crash |-> FALSE, look |-> f] :
        f \in [Dangling(reads) -> {"stale", "scribbled", "cleared"}]}
    \cup (IF undefined
          THEN {[crash |-> TRUE, look |-> [name \in Dangling(reads) |-> "stale"]]}
          ELSE {})

\* how a call finds the object behind the pointer argument of this name
Look(outcome, name) ==
    IF name \in DOMAIN outcome.look THEN outcome.look[name] ELSE "live"

\* the object it finds there
Seen(outcome, name, o, scribbled, cleared) ==
    CASE Look(outcome, name) = "scribbled" -> scribbled
      [] Look(outcome, name) = "cleared" -> cleared
      [] OTHER -> o

\* Wild stands for every value of its type at once: nothing is known of a
\* number that was read from freed memory or on a corrupted heap.
Wild == -1

\* the value a call hands out
Out(undefined, value) == IF undefined THEN Wild ELSE value

\* Scribble is a number above every value and fee of the ledger, GarbageEntry
\* an input that was never among the funds.
Scribble == 1431655765
GarbageEntry == 65

\* funds and an account that were never the wallet's
ScribbledWallet(w) ==
    [w EXCEPT !.keys = ZeroKeys, !.utxos = {GarbageEntry}, !.value = Scribble,
              !.counter = Scribble]

\* no funds and an empty account
ClearedWallet(w) ==
    [w EXCEPT !.keys = ZeroKeys, !.utxos = {}, !.value = 0, !.counter = 0]

\* a fee above the value of every entry
ScribbledSettings(s) ==
    [s EXCEPT !.coefficient = Scribble, !.constant = Scribble, !.block = Scribble]

\* no fee
ClearedSettings(s) ==
    [s EXCEPT !.coefficient = 0, !.constant = 0, !.block = 0]

ScribbledVotePlan(vp) == [vp EXCEPT !.id = Scribble, !.payload_type = "private"]

ClearedVotePlan(vp) == [vp EXCEPT !.id = 0, !.payload_type = "public"]

\* options that hold every choice
ScribbledProposal(p) ==
    [p EXCEPT !.index = U8Max, !.options = [start |-> 0, end |-> U8Max + 1]]

\* options that hold no choice
ClearedProposal(p) ==
    [p EXCEPT !.index = 0, !.options = [start |-> 0, end |-> 0]]

\* a transaction at every index a caller asks for
ScribbledConversion(c) ==
    [c EXCEPT !.transactions = [i \in 1..(MaxIndex + 1) |-> Garbage],
              !.ignored = {GarbageEntry}]

\* no transaction and nothing ignored
ClearedConversion(c) == [c EXCEPT !.transactions = <<>>, !.ignored = {}]

(***************************************************************************)
(* The corrupted heap.  A call with undefined behaviour that frees or      *)
(* writes through a dangling pointer, and any call with undefined          *)
(* behaviour on a heap already corrupted, can free or overwrite whatever   *)
(* object the allocator has placed in the chunk it touches.  From then on  *)
(* nothing is known of the objects behind the caller's pointers: each      *)
(* pointer that is not null is taken to dangle, and the history is lost.   *)
(***************************************************************************)
WildWallet ==
    [null |-> FALSE, freed |-> TRUE, keys |-> ZeroKeys, utxos |-> {},
     value |-> Wild, counter |-> Wild]
WildSettings ==
    [null |-> FALSE, freed |-> TRUE, coefficient |-> Wild, constant |-> Wild,
     block |-> Wild]
WildConversion ==
    [null |-> FALSE, freed |-> TRUE, transactions |-> <<>>, ignored |-> {}]
WildVotePlan == [null |-> FALSE, freed |-> TRUE, id |-> Wild, payload_type |-> "none"]
WildProposal ==
    [null |-> FALSE, freed |-> TRUE, index |-> Wild,
     options |-> [start |-> 0, end |-> 0]]
WildTx == [src |-> "wild", index |-> 0, bytes |-> Garbage, len |-> Wild,
           live |-> FALSE, cur |-> FALSE, mem |-> Garbage]
WildFunds == [funds |-> {}, coefficient |-> 0, ub |-> TRUE]

\* the object behind a pointer of the caller once the heap is corrupted
Lost(o, wild) == IF o.null THEN o ELSE wild

\* whether a call with undefined behaviour corrupts the heap: it does when it
\* frees or writes through its pointers, or when the heap already is
Corrupts(undefined, writes) == undefined /\ (writes \/ heap = "corrupt")

\* What a delete frees: nothing through a null pointer, its object through a
\* pointer to a live object.  Through a dangling pointer it frees the chunk a
\* second time: the allocator kills the process, or it frees whatever is in
\* the chunk now and the heap is corrupted.
Frees(name, null, dangling) ==
    IF null THEN {{}}
    ELSE IF dangling THEN {{"heap"}, {"process"}}
    ELSE {{name}}

\* the caller's ErrorPtr after a call that returned this Result
ErrorPtr(result) == IF IsError(result) THEN "live" ELSE "none"

Init ==
    /\ wallet = NullWallet
    /\ settings = NullSettings
    /\ conversion = NullConversion
    /\ vote_plan = NullVotePlan
    /\ proposal = NullProposal
    /\ tx_out = NoTx
    /\ ret = [op |-> "none", result |-> Success, written |-> {}, ub |-> FALSE]
    /\ error = "none"
    /\ aborted = FALSE
    /\ heap = "sound"
    /\ signed = <<>>
    /\ last_set = 0
    /\ converted = NoFunds

\* A call inside which the process dies (a panic, a signal): the caller and
\* all its objects are gone, and what is left is the call that did it.
Killed(call, cause) ==
    /\ wallet' = NullWallet
    /\ settings' = NullSettings
    /\ conversion' = NullConversion
    /\ vote_plan' = NullVotePlan
    /\ proposal' = NullProposal
    /\ tx_out' = NoTx
    /\ error' = "none"
    /\ heap' = "sound"
    /\ signed' = <<>>
    /\ last_set' = 0
    /\ converted' = NoFunds
    /\ aborted' = TRUE
    /\ ret' = [call EXCEPT !.result = cause, !.written = {}]

\* A call that returns and leaves the heap corrupted.  fresh are the pointers
\* of the caller it has written, err is the caller's ErrorPtr after it.
Corrupted(call, fresh, err) ==
    /\ wallet' = IF "wallet" \in fresh THEN WildWallet ELSE Lost(wallet, WildWallet)
    /\ settings' = IF "settings" \in fresh THEN WildSettings
                   ELSE Lost(settings, WildSettings)
    /\ conversion' = IF "conversion" \in fresh THEN WildConversion
                     ELSE Lost(conversion, WildConversion)
    /\ vote_plan' = IF "vote_plan" \in fresh THEN WildVotePlan
                    ELSE Lost(vote_plan, WildVotePlan)
    /\ proposal' = IF "proposal" \in fresh THEN WildProposal
                   ELSE Lost(proposal, WildProposal)
    /\ tx_out' = IF "transaction" \in fresh \/ tx_out.src # "none" THEN WildTx
                 ELSE tx_out
    /\ error' = IF err = "none" THEN "none" ELSE "freed"
    /\ heap' = "corrupt"
    /\ signed' = <<>>
    /\ last_set' = 0
    /\ converted' = WildFunds
    /\ ret' = call
    /\ UNCHANGED aborted

\* the caller's pointers a call has written, by the out-parameters it wrote
OutPointer ==
    [wallet |-> "wallet_out", settings |-> "settings_out",
     conversion |-> "conversion_out", vote_plan |-> "vote_plan_out",
     proposal |-> "proposal_out", transaction |-> "transaction_out"]

Fresh(written) == {name \in DOMAIN OutPointer : OutPointer[name] \in written}

Recover(I) ==
    /\ ~aborted
    /\ \E mnemonics \in I.mnemonics, password_length \in I.password_lengths,
          null \in {NoNull, "password", "wallet_out"} :
        LET r == wallet_recover(mnemonics, null = "password", password_length,
                                null = "wallet_out")
            fresh == "wallet_out" \in r.written
            \* the wallet or the Error is allocated
            ub == Undefined({}, TRUE)
            call == [op |-> "wallet_recover", result |-> r.result,
                     written |-> r.written, ub |-> ub,
                     password |-> (null # "password" /\ password_length > 0)]
        IN  \E outcome \in Outcomes({}, ub) :
            IF r.result = Panic THEN Killed(call, Panic)
            ELSE IF outcome.crash THEN Killed(call, Segfault)
            ELSE IF Corrupts(ub, TRUE)
            THEN Corrupted(call, Fresh(r.written), ErrorPtr(r.result))
            ELSE /\ wallet' = IF fresh THEN r.wallet ELSE wallet
                 /\ signed' = IF fresh THEN <<>> ELSE signed
                 /\ last_set' = IF fresh THEN 0 ELSE last_set
                 /\ ret' = call
                 /\ error' = ErrorPtr(r.result)
                 /\ UNCHANGED <<settings, conversion, vote_plan, proposal, tx_out,
                                converted, aborted, heap>>

\* wallet.as_ref(): the wallet is read
WalletId ==
    /\ ~aborted
    /\ \E null \in {NoNull, "wallet", "id_out"} :
        LET w == Arg(null = "wallet", wallet, NullWallet)
            reads == wallet_id_reads(w, null = "id_out")
            ub == Undefined(reads, IsError(wallet_id(w, null = "id_out").result))
        IN  \E outcome \in Outcomes(reads, ub) :
            LET w_seen == Seen(outcome, "wallet", w, ScribbledWallet(w),
                              ClearedWallet(w))
                r == wallet_id(w_seen, null = "id_out")
                call == [op |-> "wallet_id", result |-> r.result,
                         written |-> r.written, ub |-> ub,
                         id |-> IF ub THEN <<Wild, Wild>> ELSE r.id]
            IN  IF outcome.crash THEN Killed(call, Segfault)
                ELSE IF Corrupts(ub, FALSE)
                THEN Corrupted(call, Fresh(r.written), ErrorPtr(r.result))
                ELSE /\ ret' = call
                     /\ error' = ErrorPtr(r.result)
                     /\ UNCHANGED <<wallet, settings, conversion, vote_plan,
                                    proposal, tx_out, signed, last_set, converted,
                                    aborted, heap>>

\* wallet.as_mut(): the wallet is written
RetrieveFunds(I) ==
    /\ ~aborted
    /\ \E block0 \in I.blocks,
          null \in {NoNull, "wallet", "block0", "settings_out"} :
        LET w == Arg(null = "wallet", wallet, NullWallet)
            reads == wallet_retrieve_funds_reads(w, null = "block0",
                                                 null = "settings_out")
            \* the Settings or the Error is allocated
            ub == Undefined(reads, TRUE)
        IN  \E outcome \in Outcomes(reads, ub) :
            LET w_seen == Seen(outcome, "wallet", w, ScribbledWallet(w),
                              ClearedWallet(w))
                r == wallet_retrieve_funds(w_seen, null = "block0", block0,
                                           null = "settings_out")
                call == [op |-> "wallet_retrieve_funds", result |-> r.result,
                         written |-> r.written, ub |-> ub]
            IN  IF outcome.crash THEN Killed(call, Segfault)
                ELSE IF Corrupts(ub, TRUE)
                THEN Corrupted(call, Fresh(r.written), ErrorPtr(r.result))
                ELSE /\ wallet' = IF null = "wallet" THEN wallet ELSE r.wallet
                     /\ settings' = IF "settings_out" \in r.written THEN r.settings
                                    ELSE settings
                     /\ ret' = call
                     /\ error' = ErrorPtr(r.result)
                     /\ UNCHANGED <<conversion, vote_plan, proposal, tx_out, signed,
                                    last_set, converted, aborted, heap>>

\* wallet.as_mut(), and the clone of the settings is dropped
Convert ==
    /\ ~aborted
    /\ \E null \in {NoNull, "wallet", "settings", "conversion_out"} :
        LET w == Arg(null = "wallet", wallet, NullWallet)
            s == Arg(null = "settings", settings, NullSettings)
            reads == wallet_convert_reads(w, s, null = "conversion_out")
            \* the Conversion or the Error is allocated
            ub == Undefined(reads, TRUE)
        IN  \E outcome \in Outcomes(reads, ub) :
            LET w_seen == Seen(outcome, "wallet", w, ScribbledWallet(w),
                              ClearedWallet(w))
                s_seen == Seen(outcome, "settings", s, ScribbledSettings(s),
                               ClearedSettings(s))
                r == wallet_convert(w_seen, s_seen, null = "conversion_out")
                fresh == "conversion_out" \in r.written
                call == [op |-> "wallet_convert", result |-> r.result,
                         written |-> r.written, ub |-> ub]
            IN  IF outcome.crash THEN Killed(call, Segfault)
                ELSE IF Corrupts(ub, TRUE)
                THEN Corrupted(call, Fresh(r.written), ErrorPtr(r.result))
                ELSE /\ conversion' = IF fresh THEN r.conversion ELSE conversion
                     \* a pointer into the conversion this one replaces is no
                     \* longer one into the caller's current conversion
                     /\ tx_out' = IF fresh THEN [tx_out EXCEPT !.cur = FALSE]
                                  ELSE tx_out
                     /\ converted' = IF fresh
                                     THEN [funds |-> w_seen.utxos,
                                           coefficient |-> s_seen.coefficient,
                                           ub |-> ub]
                                     ELSE converted
                     /\ ret' = call
                     /\ error' = ErrorPtr(r.result)
                     /\ UNCHANGED <<wallet, settings, vote_plan, proposal, signed,
                                    last_set, aborted, heap>>

\* returns a usize, not a Result: nothing is allocated and the caller's
\* ErrorPtr is not touched; conversion.as_ref(): the conversion is read
TransactionsSize ==
    /\ ~aborted
    /\ \E null \in {NoNull, "conversion"} :
        LET c == Arg(null = "conversion", conversion, NullConversion)
            reads == wallet_convert_transactions_size_reads(c)
            ub == Undefined(reads, FALSE)
        IN  \E outcome \in Outcomes(reads, ub) :
            LET c_seen == Seen(outcome, "conversion", c, ScribbledConversion(c),
                               ClearedConversion(c))
                call == [op |-> "wallet_convert_transactions_size",
                         result |-> Success, written |-> {}, ub |-> ub,
                         size |-> Out(ub, wallet_convert_transactions_size(c_seen))]
            IN  IF outcome.crash THEN Killed(call, Segfault)
                ELSE IF Corrupts(ub, FALSE) THEN Corrupted(call, {}, error)
                ELSE /\ ret' = call
                     /\ UNCHANGED <<wallet, settings, conversion, vote_plan,
                                    proposal, tx_out, error, signed, last_set,
                                    converted, aborted, heap>>

\* conversion.as_ref(): the conversion is read
TransactionsGet(I) ==
    /\ ~aborted
    /\ \E index \in I.gets,
          null \in {NoNull, "conversion", "transaction_out", "transaction_size"} :
        LET c == Arg(null = "conversion", conversion, NullConversion)
            reads == wallet_convert_transactions_get_reads(
                         c, null = "transaction_out", null = "transaction_size")
            ub == Undefined(reads,
                      IsError(wallet_convert_transactions_get(
                                  c, index, null = "transaction_out",
                                  null = "transaction_size").result))
        IN  \E outcome \in Outcomes(reads, ub) :
            LET c_seen == Seen(outcome, "conversion", c, ScribbledConversion(c),
                               ClearedConversion(c))
                r == wallet_convert_transactions_get(
                         c_seen, index, null = "transaction_out",
                         null = "transaction_size")
                wrote == "transaction_out" \in r.written
                call == [op |-> "wallet_convert_transactions_get",
                         result |-> r.result, written |-> r.written,
                         ub |-> ub, index |-> index, null |-> null]
            IN  IF outcome.crash THEN Killed(call, Segfault)
                ELSE IF Corrupts(ub, FALSE)
                THEN Corrupted(call, Fresh(r.written), ErrorPtr(r.result))
                ELSE \* the pointer handed out is one into the conversion's
                     \* memory, and one to anywhere when that has been freed
                     /\ IF wrote /\ ub THEN tx_out' = WildTx
                        ELSE IF wrote
                        THEN tx_out' = [src |-> "conversion", index |-> index,
                                        bytes |-> r.bytes, len |-> r.len,
                                        live |-> TRUE, cur |-> TRUE,
                                        mem |-> r.bytes]
                        ELSE tx_out' = tx_out
                     /\ ret' = call
                     /\ error' = ErrorPtr(r.result)
                     /\ UNCHANGED <<wallet, settings, conversion, vote_plan,
                                    proposal, signed, last_set, converted, aborted,
                                    heap>>

\* conversion.as_ref(): the conversion is read
ConvertIgnored ==
    /\ ~aborted
    /\ \E conversion_null \in BOOLEAN, value_out_null \in BOOLEAN,
          ignored_out_null \in BOOLEAN :
        LET c == Arg(conversion_null, conversion, NullConversion)
            reads == wallet_convert_ignored_reads(c)
            ub == Undefined(reads,
                      IsError(wallet_convert_ignored(c, value_out_null,
                                                     ignored_out_null).result))
        IN  \E outcome \in Outcomes(reads, ub) :
            LET c_seen == Seen(outcome, "conversion", c, ScribbledConversion(c),
                               ClearedConversion(c))
                r == wallet_convert_ignored(c_seen, value_out_null,
                                            ignored_out_null)
                call == [op |-> "wallet_convert_ignored", result |-> r.result,
                         written |-> r.written, ub |-> ub,
                         value |-> Out(ub, r.value),
                         ignored |-> Out(ub, r.ignored)]
            IN  IF outcome.crash THEN Killed(call, Segfault)
                ELSE IF Corrupts(ub, FALSE)
                THEN Corrupted(call, Fresh(r.written), ErrorPtr(r.result))
                ELSE /\ ret' = call
                     /\ error' = ErrorPtr(r.result)
                     /\ UNCHANGED <<wallet, settings, conversion, vote_plan,
                                    proposal, tx_out, signed, last_set, converted,
                                    aborted, heap>>

\* wallet.as_ref(): the wallet is read
TotalValue ==
    /\ ~aborted
    /\ \E null \in {NoNull, "wallet", "total_out"} :
        LET w == Arg(null = "wallet", wallet, NullWallet)
            reads == wallet_total_value_reads(w, null = "total_out")
            ub == Undefined(reads,
                      IsError(wallet_total_value(w, null = "total_out").result))
        IN  \E outcome \in Outcomes(reads, ub) :
            LET w_seen == Seen(outcome, "wallet", w, ScribbledWallet(w),
                              ClearedWallet(w))
                r == wallet_total_value(w_seen, null = "total_out")
                call == [op |-> "wallet_total_value", result |-> r.result,
                         written |-> r.written, ub |-> ub,
                         total |-> Out(ub, r.total), null |-> null]
            IN  IF outcome.crash THEN Killed(call, Segfault)
                ELSE IF Corrupts(ub, FALSE)
                THEN Corrupted(call, Fresh(r.written), ErrorPtr(r.result))
                ELSE /\ ret' = call
                     /\ error' = ErrorPtr(r.result)
                     /\ UNCHANGED <<wallet, settings, conversion, vote_plan,
                                    proposal, tx_out, signed, last_set, converted,
                                    aborted, heap>>

\* wallet.as_mut(): the wallet is written
SetState(I) ==
    /\ ~aborted
    /\ \E state \in I.states, null \in {NoNull, "wallet"} :
        LET w == Arg(null = "wallet", wallet, NullWallet)
            reads == wallet_set_state_reads(w)
            ub == Undefined(reads,
                      IsError(wallet_set_state(w, state[1], state[2]).result))
        IN  \E outcome \in Outcomes(reads, ub) :
            LET w_seen == Seen(outcome, "wallet", w, ScribbledWallet(w),
                              ClearedWallet(w))
                r == wallet_set_state(w_seen, state[1], state[2])
                call == [op |-> "wallet_set_state", result |-> r.result,
                         written |-> {}, ub |-> ub,
                         value |-> state[1], counter |-> state[2]]
            IN  IF outcome.crash THEN Killed(call, Segfault)
                ELSE IF Corrupts(ub, TRUE)
                THEN Corrupted(call, {}, ErrorPtr(r.result))
                ELSE /\ wallet' = IF null = "wallet" THEN wallet ELSE r.wallet
                     /\ last_set' = IF r.result = Success THEN state[2]
                                    ELSE last_set
                     /\ ret' = call
                     /\ error' = ErrorPtr(r.result)
                     /\ UNCHANGED <<settings, conversion, vote_plan, proposal,
                                    tx_out, signed, converted, aborted, heap>>

VotePlan(I) ==
    /\ ~aborted
    /\ \E id \in I.ids, payload_type \in I.payloads,
          null \in {NoNull, "id", "vote_plan_out"} :
        LET r == wallet_vote_plan(null = "id", id, payload_type,
                                  null = "vote_plan_out")
            \* the VotePlan or the Error is allocated
            ub == Undefined({}, TRUE)
            call == [op |-> "wallet_vote_plan", result |-> r.result,
                     written |-> r.written, ub |-> ub]
        IN  \E outcome \in Outcomes({}, ub) :
            IF outcome.crash THEN Killed(call, Segfault)
            ELSE IF Corrupts(ub, TRUE)
            THEN Corrupted(call, Fresh(r.written), ErrorPtr(r.result))
            ELSE /\ vote_plan' = IF "vote_plan_out" \in r.written THEN r.vote_plan
                                 ELSE vote_plan
                 /\ ret' = call
                 /\ error' = ErrorPtr(r.result)
                 /\ UNCHANGED <<wallet, settings, conversion, proposal, tx_out,
                                aborted, heap, signed, last_set, converted>>

VoteProposal(I) ==
    /\ ~aborted
    /\ \E index \in I.indexes, num_choices \in I.num_choices,
          null \in {NoNull, "proposal_out"} :
        LET r == wallet_vote_proposal(index, num_choices, null = "proposal_out")
            \* the Proposal or the Error is allocated
            ub == Undefined({}, TRUE)
            call == [op |-> "wallet_vote_proposal", result |-> r.result,
                     written |-> r.written, ub |-> ub, index |-> index,
                     num_choices |-> num_choices, null |-> null]
        IN  \E outcome \in Outcomes({}, ub) :
            IF outcome.crash THEN Killed(call, Segfault)
            ELSE IF Corrupts(ub, TRUE)
            THEN Corrupted(call, Fresh(r.written), ErrorPtr(r.result))
            ELSE /\ proposal' = IF "proposal_out" \in r.written THEN r.proposal
                                ELSE proposal
                 /\ ret' = call
                 /\ error' = ErrorPtr(r.result)
                 /\ UNCHANGED <<wallet, settings, conversion, vote_plan, tx_out,
                                aborted, heap, signed, last_set, converted>>

\* wallet.as_mut(), and the clone of the settings is dropped
VoteCast(I) ==
    /\ ~aborted
    /\ \E choice \in I.choices,
          null \in {NoNull, "wallet", "settings", "vote_plan", "proposal",
                    "transaction_out", "len_out"} :
        LET w == Arg(null = "wallet", wallet, NullWallet)
            s == Arg(null = "settings", settings, NullSettings)
            vp == Arg(null = "vote_plan", vote_plan, NullVotePlan)
            p == Arg(null = "proposal", proposal, NullProposal)
            reads == wallet_vote_cast_reads(w, s, vp, p, null = "transaction_out",
                                            null = "len_out")
            \* the transaction or the Error is allocated
            ub == Undefined(reads, TRUE)
        IN  \E outcome \in Outcomes(reads, ub) :
            LET r == wallet_vote_cast(
                         Seen(outcome, "wallet", w, ScribbledWallet(w),
                              ClearedWallet(w)),
                         Seen(outcome, "settings", s, ScribbledSettings(s),
                              ClearedSettings(s)),
                         Seen(outcome, "vote_plan", vp, ScribbledVotePlan(vp),
                              ClearedVotePlan(vp)),
                         Seen(outcome, "proposal", p, ScribbledProposal(p),
                              ClearedProposal(p)),
                         choice, null = "transaction_out", null = "len_out")
                wrote == "transaction_out" \in r.written
                call == [op |-> "wallet_vote_cast", result |-> r.result,
                         written |-> r.written, ub |-> ub,
                         choice |-> choice, null |-> null]
            IN  IF outcome.crash THEN Killed(call, Segfault)
                ELSE IF Corrupts(ub, TRUE)
                THEN Corrupted(call, Fresh(r.written), ErrorPtr(r.result))
                ELSE /\ wallet' = IF null = "wallet" THEN wallet ELSE r.wallet
                     /\ IF wrote
                        THEN \E mem \in Deref(r.bytes, r.live) :
                                tx_out' = [src |-> "vote", index |-> 0,
                                           bytes |-> r.bytes, len |-> r.len,
                                           live |-> r.live, cur |-> FALSE,
                                           mem |-> mem]
                        ELSE tx_out' = tx_out
                     /\ signed' = IF wrote THEN <<TxCounter(r.bytes)>> ELSE signed
                     /\ ret' = call
                     /\ error' = ErrorPtr(r.result)
                     /\ UNCHANGED <<settings, conversion, vote_plan, proposal,
                                    last_set, converted, aborted, heap>>

\* The six delete functions have one body: Box::from_raw and drop when the
\* pointer is not null.  They return nothing, so the caller's ErrorPtr is not
\* replaced.  gone is what the call frees; a transaction pointer into a
\* conversion dangles once the conversion is gone.
Delete(name, op, null, dangling) ==
    /\ ~aborted
    /\ \E gone \in Frees(name, null, dangling) :
        LET tx_dangling == /\ "conversion" \in gone
                           /\ tx_out.src = "conversion" /\ tx_out.cur
            call == [op |-> op, result |-> Success, written |-> {},
                     ub |-> dangling]
        IN  IF "process" \in gone THEN Killed(call, Segfault)
            ELSE IF "heap" \in gone THEN Corrupted(call, {}, error)
            ELSE /\ wallet' = IF "wallet" \in gone THEN wallet_delete_wallet(wallet)
                              ELSE wallet
                 /\ settings' = IF "settings" \in gone
                                THEN wallet_delete_settings(settings) ELSE settings
                 /\ conversion' = IF "conversion" \in gone
                                  THEN wallet_delete_conversion(conversion)
                                  ELSE conversion
                 /\ vote_plan' = IF "vote_plan" \in gone
                                 THEN wallet_delete_vote_plan(vote_plan)
                                 ELSE vote_plan
                 /\ proposal' = IF "proposal" \in gone
                                THEN wallet_delete_proposal(proposal) ELSE proposal
                 /\ error' = IF "error" \in gone THEN wallet_delete_error(error)
                             ELSE error
                 /\ IF tx_dangling
                    THEN \E mem \in Deref(tx_out.bytes, FALSE) :
                            tx_out' = [tx_out EXCEPT !.live = FALSE, !.mem = mem]
                    ELSE tx_out' = tx_out
                 /\ ret' = call
                 /\ UNCHANGED <<signed, last_set, converted, aborted, heap>>

DeleteError ==
    Delete("error", "wallet_delete_error", error = "none", error = "freed")

DeleteSettings ==
    \E null \in {NoNull, "settings"} :
        LET s == Arg(null = "settings", settings, NullSettings)
        IN  Delete("settings", "wallet_delete_settings", s.null,
                   UseAfterFree(wallet_delete_reads(s, "settings")))

DeleteWallet ==
    \E null \in {NoNull, "wallet"} :
        LET w == Arg(null = "wallet", wallet, NullWallet)
        IN  Delete("wallet", "wallet_delete_wallet", w.null,
                   UseAfterFree(wallet_delete_reads(w, "wallet")))

DeleteConversion ==
    \E null \in {NoNull, "conversion"} :
        LET c == Arg(null = "conversion", conversion, NullConversion)
        IN  Delete("conversion", "wallet_delete_conversion", c.null,
                   UseAfterFree(wallet_delete_reads(c, "conversion")))

DeleteVotePlan ==
    \E null \in {NoNull, "vote_plan"} :
        LET vp == Arg(null = "vote_plan", vote_plan, NullVotePlan)
        IN  Delete("vote_plan", "wallet_delete_vote_plan", vp.null,
                   UseAfterFree(wallet_delete_reads(vp, "vote_plan")))

DeleteProposal ==
    \E null \in {NoNull, "proposal"} :
        LET p == Arg(null = "proposal", proposal, NullProposal)
        IN  Delete("proposal", "wallet_delete_proposal", p.null,
                   UseAfterFree(wallet_delete_reads(p, "proposal")))

\* the whole program; the claims are checked on the fragments that follow
\* it, each made of the functions its claims are about
Next ==
    \/ Recover(Inputs)
    \/ WalletId
    \/ RetrieveFunds(Inputs)
    \/ Convert
    \/ TransactionsSize
    \/ TransactionsGet(Inputs)
    \/ ConvertIgnored
    \/ TotalValue
    \/ SetState(Inputs)
    \/ VotePlan(Inputs)
    \/ VoteProposal(Inputs)
    \/ VoteCast(Inputs)
    \/ DeleteError
    \/ DeleteSettings
    \/ DeleteWallet
    \/ DeleteConversion
    \/ DeleteVotePlan
    \/ DeleteProposal

Spec == Init /\ [][Next]_vars

\* the functions that can fail, and the deletion that ends the life of the
\* transactions a conversion hands out
NextFallible ==
    \/ Recover(Inputs)
    \/ RetrieveFunds(Inputs)
    \/ Convert
    \/ TransactionsGet(Inputs)
    \/ VotePlan(Inputs)
    \/ VoteProposal(Inputs)
    \/ VoteCast(Inputs)
    \/ DeleteWallet
    \/ DeleteConversion

SpecFallible == Init /\ [][NextFallible]_vars

\* the account: its funds, its state and its total
NextAccount ==
    \/ Recover(AccountInputs)
    \/ RetrieveFunds(AccountInputs)
    \/ TotalValue
    \/ SetState(AccountInputs)
    \/ DeleteWallet

SpecAccount == Init /\ [][NextAccount]_vars

\* the account and the votes
NextVote ==
    \/ Recover(VoteInputs)
    \/ RetrieveFunds(VoteInputs)
    \/ TotalValue
    \/ SetState(VoteInputs)
    \/ VotePlan(VoteInputs)
    \/ VoteProposal(VoteInputs)
    \/ VoteCast(VoteInputs)
    \/ DeleteWallet
    \/ DeleteProposal

SpecVote == Init /\ [][NextVote]_vars

\* the funds and their conversion
NextConversion ==
    \/ Recover(ConversionInputs)
    \/ RetrieveFunds(ConversionInputs)
    \/ Convert
    \/ TransactionsSize
    \/ TransactionsGet(ConversionInputs)
    \/ ConvertIgnored
    \/ DeleteConversion

SpecConversion == Init /\ [][NextConversion]_vars

\* the proposals
NextProposal ==
    \/ VoteProposal(ProposalInputs)
    \/ DeleteProposal

SpecProposal == Init /\ [][NextProposal]_vars

(***************************************************************************)
(* The claims.                                                             *)
(***************************************************************************)
\* The claims are about calls with defined behaviour (ub is FALSE on them):
\* calls whose pointer arguments are null or point to live objects, on a heap
\* that no earlier call has corrupted, and about conversions built by such
\* calls.
VoteCastSucceeded ==
    ret.op = "wallet_vote_cast" /\ ret.result = Success /\ ~ret.ub

\* C1: a successful wallet_vote_cast leaves the account value and the account
\* counter of the wallet as they were before the call.
C1_VoteCastKeepsAccountState ==
    [][(ret'.op = "wallet_vote_cast" /\ ret'.result = Success /\ ~ret'.ub)
        => (wallet'.value = wallet.value /\ wallet'.counter = wallet.counter)]_vars

C1_Witness ==
    VoteCastSucceeded /\ wallet.value = 1000 /\ wallet.counter = 5

\* C2, as claimed: the counter of every transaction wallet_vote_cast builds is
\* strictly greater than the counter of the transaction built before it on
\* the same wallet.
C2_CountersStrictlyIncrease ==
    [][(/\ ret'.op = "wallet_vote_cast" /\ ret'.result = Success /\ ~ret'.ub
        /\ signed # <<>>)
        => signed'[1] > signed[1]]_vars

\* C2, amended: every transaction wallet_vote_cast builds is signed with the
\* counter of the last successful wallet_set_state on the wallet (0 when there
\* has been none since the wallet was recovered).
C2_SignedWithLastSetCounter ==
    VoteCastSucceeded => signed = <<last_set>>

C2_Witness ==
    VoteCastSucceeded /\ signed = <<5>> /\ last_set = 5

FallibleOps ==
    {"wallet_recover", "wallet_retrieve_funds", "wallet_convert",
     "wallet_convert_transactions_get", "wallet_vote_plan", "wallet_vote_proposal",
     "wallet_vote_cast"}

\* C3: a call of one of the fallible functions that returns an error leaves the
\* wallet (keys, funds, account value and counter) as it was and writes no
\* out-parameter: every object and cell behind an out-pointer is unchanged.
C3_FailureIsAtomic ==
    [][(ret'.op \in FallibleOps /\ IsError(ret'.result) /\ ~ret'.ub)
        => /\ wallet' = wallet
           /\ ret'.written = {}
           /\ settings' = settings
           /\ conversion' = conversion
           /\ vote_plan' = vote_plan
           /\ proposal' = proposal
           /\ tx_out' = tx_out]_vars

C3_Witness ==
    /\ ret.op = "wallet_vote_cast"
    /\ ret.result = WalletVoteError("ChoiceOutOfRange") /\ ~ret.ub
    /\ wallet.utxos # {}
    /\ ~conversion.null
    /\ tx_out.src = "conversion" /\ tx_out.live

RECURSIVE SeqSum(_)
SeqSum(q) == IF q = <<>> THEN 0 ELSE EntryValue(Head(q)) + SeqSum(Tail(q))

C5_RecoverHonoursPassphrase ==
    (ret.op = "wallet_recover" /\ ret.password)
        => /\ ret.result # Panic
           /\ ~aborted
           /\ (ret.result = Success => wallet.keys.pw # 0)

\* C6: with no null argument and live objects, wallet_vote_cast fails with
\* the choice-out-of-range error and writes nothing when the choice is not
\* below the proposal's number of choices, and otherwise succeeds and the
\* caller finds, behind transaction_out, the bytes that the vote plan, the
\* proposal index, the choice and the account counter determine.
C6_VoteCastValidatesChoice ==
    (/\ ret.op = "wallet_vote_cast" /\ ret.null = NoNull /\ ~ret.ub
     /\ ~wallet.null /\ ~settings.null /\ ~vote_plan.null /\ ~proposal.null)
        => IF ret.choice >= proposal.options.end
           THEN ret.result = WalletVoteError("ChoiceOutOfRange") /\ ret.written = {}
           ELSE /\ ret.result = Success
                /\ ret.written = {"transaction_out", "len_out"}
                /\ tx_out.len = Len(VoteTx(wallet, vote_plan, proposal, ret.choice))
                /\ tx_out.mem = VoteTx(wallet, vote_plan, proposal, ret.choice)

\* C7: on a heap that no earlier call has corrupted, wallet_vote_proposal with
\* a non-null proposal_out fails with an invalid-input error, writing nothing,
\* when num_choices is 0 or above the protocol maximum, and otherwise succeeds
\* with a proposal of the given index whose valid choices are exactly
\* 0 .. num_choices - 1.
C7_ProposalBounds ==
    (ret.op = "wallet_vote_proposal" /\ ret.null = NoNull /\ ~ret.ub)
        => IF ret.num_choices = 0 \/ ret.num_choices > NumChoicesMax
           THEN ret.result.kind = "invalid_input" /\ ret.written = {}
           ELSE /\ ret.result = Success
                /\ ret.written = {"proposal_out"}
                /\ proposal.index = ret.index
                /\ {c \in 0..U8Max : Options_validate(proposal.options, c)}
                      = 0..(ret.num_choices - 1)

C7_Witness ==
    /\ ret.op = "wallet_vote_proposal" /\ ret.result = Success /\ ~ret.ub
    /\ ret.num_choices = NumChoicesMax
    /\ proposal.options.end = NumChoicesMax

SpentBy(c) == UNION {TxInputs(c.transactions[i]) : i \in 1..Len(c.transactions)}

\* C8: in a live conversion, every entry of the funds it was built from is either
\* an input of exactly one transaction or ignored, never both; the ignored
\* entries are exactly those whose value is at most the fee of one more input;
\* and wallet_convert_ignored reports their summed value and their number.
C8_DustPartition ==
    /\ (~conversion.null /\ ~conversion.freed /\ ~converted.ub) =>
        /\ SpentBy(conversion) \cup conversion.ignored = converted.funds
        /\ SpentBy(conversion) \cap conversion.ignored = {}
        /\ \A i, j \in 1..Len(conversion.transactions) :
              i # j => TxInputs(conversion.transactions[i])
                          \cap TxInputs(conversion.transactions[j]) = {}
        /\ \A e \in converted.funds :
              e \in conversion.ignored <=> EntryValue(e) <= converted.coefficient
    /\ (/\ ret.op = "wallet_convert_ignored" /\ ret.result = Success /\ ~ret.ub
        /\ ~converted.ub) =>
        /\ ret.value = SeqSum(SetToSeq({e \in converted.funds :
                                          EntryValue(e) <= converted.coefficient}))
        /\ ret.ignored = Cardinality({e \in converted.funds :
                                          EntryValue(e) <= converted.coefficient})

\* two transactions, and among the ignored an entry worth exactly the fee of
\* one input
C8_Witness ==
    /\ ret.op = "wallet_convert_ignored" /\ ret.result = Success /\ ~ret.ub
    /\ ret.written = {"value_out", "ignored_out"}
    /\ Len(conversion.transactions) = 2
    /\ ret.ignored = 2 /\ ret.value = 3
    /\ \E e \in conversion.ignored : EntryValue(e) = converted.coefficient
    /\ \E e \in SpentBy(conversion) : EntryValue(e) = converted.coefficient + 1

\* C9: on a live conversion of size s, with no null argument,
\* wallet_convert_transactions_get succeeds and hands out the index-th
\* transaction and its length when index < s, and fails with the out-of-bound
\* error, leaving the caller's cell as it was, when index >= s; a conversion
\* of no funds has size 0.
C9_GetIsBoundsChecked ==
    [][(/\ ret'.op = "wallet_convert_transactions_get" /\ ret'.null = NoNull
        /\ ~conversion.null /\ ~conversion.freed /\ ~converted.ub)
        => /\ IF ret'.index < wallet_convert_transactions_size(conversion)
              THEN /\ ret'.result = Success
                   /\ tx_out'.src = "conversion"
                   /\ tx_out'.bytes = conversion.transactions[ret'.index + 1]
                   /\ tx_out'.len = Len(conversion.transactions[ret'.index + 1])
                   /\ tx_out'.mem = tx_out'.bytes
              ELSE /\ ret'.result = WalletConversionError("OutOfBound")
                   /\ ret'.written = {}
                   /\ tx_out' = tx_out
           /\ (converted.funds = {}
                  => wallet_convert_transactions_size(conversion) = 0)]_vars

\* the index equal to the size, on a conversion of two transactions
C9_Witness ==
    /\ ret.op = "wallet_convert_transactions_get"
    /\ ret.result = WalletConversionError("OutOfBound") /\ ~ret.ub
    /\ ret.index = 2
    /\ Len(conversion.transactions) = 2
    /\ tx_out.src = "conversion" /\ tx_out.index = 1

\* C10: the buffer behind the caller's transaction pointer is allocated: the
\* one wallet_vote_cast handed out, always, and the one
\* wallet_convert_transactions_get handed out, as long as its conversion has
\* not been deleted.
C10_HandedOutBuffersAreLive ==
    /\ tx_out.src = "vote" => tx_out.live
    /\ (tx_out.src = "conversion" /\ tx_out.cur /\ ~conversion.freed) => tx_out.live
====
